---- MODULE Spec2Model ----
(***************************************************************************)
(* Model of the apiserver receive adapter of knative eventing:             *)
(*   - pkg/adapter/apiserver stats reporter (NewStatsReporter,             *)
(*     ReportEventCount, generateTag) and the event_count view;            *)
(*   - cmd/apiserver_receive_adapter main (descriptor loop, adaptor        *)
(*     construction, Start, exit);                                         *)
(*   - the broker ingress reporter's dispatch-latency distribution.        *)
(***************************************************************************)
EXTENDS Integers, Sequences, FiniteSets, TLC

VARIABLES
    \* ---- apiserver stats reporter (process-wide metrics state) ----
    views,        \* registered views, in registration order
    rows,         \* event_count view data: row tags -> count
    hasReporter,  \* a reporter returned by NewStatsReporter is in hand
    recorded,     \* number of measurements handed to metrics.Record
    last,         \* the last reporter operation, its inputs and outputs
    calls,        \* ReportEventCount calls since the view was registered
    newOK,        \* number of successful NewStatsReporter calls
    nops,         \* number of reporter operations performed
    \* ---- cmd/apiserver_receive_adapter main ----
    env,          \* envConfig: ApiVersion, Kind, Controller
    pc,           \* where main is
    idx,          \* the loop index i (counted from 1)
    gvrcs,        \* the descriptors built so far
    exit,         \* how the process ended: code and reason
    signalled,    \* the first shutdown signal has been delivered
    adaptor,      \* the adaptor: state, GVRCs, in-flight deliveries, ...
    startErr,     \* what Start returned
    \* ---- broker ingress stats reporter ----
    ingressViews, \* registered views of the ingress process
    latencies,    \* event_dispatch_latencies view data: row tags -> observations
    dispatched,   \* ReportEventDispatchTime calls since the views were registered
    iops          \* number of ingress reporter operations performed

reporterVars == <<views, rows, hasReporter, recorded, last, calls, newOK, nops>>

mainVars == <<env, pc, idx, gvrcs, exit, signalled, adaptor, startErr>>

ingressVars == <<ingressViews, latencies, dispatched, iops>>

vars == <<reporterVars, mainVars, ingressVars>>

\* Longest run of reporter operations explored.
MaxOps == 4

-----------------------------------------------------------------------------
(* Values *)

nil == "nil"

\* A tag value the tag library rejects (not printable ASCII).
NonASCII == "<non-ASCII>"

\* metricskey constants
LabelNamespaceName == "namespace_name"
LabelEventType == "event_type"
LabelEventSource == "event_source"
LabelImporterName == "importer_name"
LabelImporterResourceGroup == "importer_resource_group"
LabelResult == "result"
metricskeyAny == "any"

importerResourceGroupValue == "apiserversources.sources.eventing.knative.dev"

\* The ReportArgs values explored: the arguments of the two tests, a second
\* namespace, and one whose namespace is not a valid tag value.
ReportArgsSet ==
    { [ns |-> "testns", eventType |-> "dev.knative.apiserver.ref.delete",
       eventSource |-> "unit-test", apiServerImporter |-> ""],
      [ns |-> "testns", eventType |-> "", eventSource |-> "",
       apiServerImporter |-> ""],
      [ns |-> "otherns", eventType |-> "dev.knative.apiserver.ref.delete",
       eventSource |-> "unit-test", apiServerImporter |-> "importer"],
      [ns |-> NonASCII, eventType |-> "dev.knative.apiserver.ref.delete",
       eventSource |-> "unit-test", apiServerImporter |-> ""] }

\* The delivery errors passed to ReportEventCount.
Errors == {nil, "delivery failed"}

\* No adaptor has been constructed.
NoAdaptor ==
    [state |-> "None", GVRCs |-> <<>>, inflight |-> 0, accepted |-> 0,
     graceElapsed |-> FALSE, fault |-> FALSE]

-----------------------------------------------------------------------------
(* Tags *)

\* Result(err): the value of the result tag.
Result(err) == IF err = nil THEN "success" ELSE "failure"

\* tag.Insert(k, v): a mutator.
Insert(k, v) == [key |-> k, value |-> v]

\* The tag library accepts a value when it is printable ASCII.
checkValue(v) == v # NonASCII

\* A mutator applied to a tag map: Insert keeps an existing key's value.
applyMutator(m, t) ==
    IF t.key \in DOMAIN m THEN m
    ELSE [k \in DOMAIN m \cup {t.key} |-> IF k = t.key THEN t.value ELSE m[k]]

RECURSIVE tagNewFrom(_, _)
tagNewFrom(m, ts) ==
    IF ts = <<>> THEN [ctx |-> m, err |-> nil]
    ELSE IF ~checkValue(Head(ts).value) THEN [ctx |-> <<>>, err |-> "errInvalidValue"]
    ELSE tagNewFrom(applyMutator(m, Head(ts)), Tail(ts))

\* tag.New(context.Background(), mutators...)
tagNew(ts) == tagNewFrom(<<>>, ts)

\* The tag keys a reporter holds.
reporterKeys ==
    [namespaceTagKey |-> LabelNamespaceName,
     eventTypeTagKey |-> LabelEventType,
     eventSourceTagKey |-> LabelEventSource,
     importerNameTagKey |-> LabelImporterName,
     importerResourceGroupTagKey |-> LabelImporterResourceGroup,
     resultKey |-> LabelResult]

generateTag(r, args, t) ==
    tagNew(<<Insert(r.namespaceTagKey, args.ns),
             Insert(r.eventSourceTagKey, args.eventSource),
             Insert(r.eventTypeTagKey, args.eventType),
             Insert(r.importerNameTagKey, args.apiServerImporter),
             t>>)

-----------------------------------------------------------------------------
(* Views *)

\* The view NewStatsReporter registers.
eventCountView(r) ==
    [Name |-> "event_count",
     TagKeys |-> {r.namespaceTagKey, r.eventSourceTagKey, r.eventTypeTagKey,
                  r.importerNameTagKey, r.importerResourceGroupTagKey}]

isRegistered(vs, name) == \E i \in 1..Len(vs) : vs[i].Name = name

\* Mutant: a view is registered again under a name already taken.
viewRegister_Again(vs, v) == [views |-> Append(vs, v), err |-> nil]

\* view.Register as the reporter relies on it: a view whose name is already
\* registered is refused.
viewRegister(vs, v) ==
    IF isRegistered(vs, v.Name)
    THEN [views |-> vs, err |-> "already registered"]
    ELSE [views |-> Append(vs, v), err |-> nil]

\* metricstest.Unregister(name)
viewUnregister(vs, name) == SelectSeq(vs, LAMBDA v : v.Name # name)

\* The row of a view a tag map is aggregated into.
rowTags(v, ctx) == [k \in v.TagKeys \cap DOMAIN ctx |-> ctx[k]]

rowCount(rs, t) == IF t \in DOMAIN rs THEN rs[t] ELSE 0

\* eventCountM.M(1)
eventCountM == 1

\* metrics.Record(ctx, eventCountM.M(n)) under a Count aggregation: every
\* registered event_count view counts the measurement in the row of its tags.
metricsRecord(vs, rs, ctx) ==
    IF ~isRegistered(vs, "event_count") THEN rs
    ELSE LET v == CHOOSE w \in {vs[i] : i \in 1..Len(vs)} : w.Name = "event_count"
             t == rowTags(v, ctx)
         IN [x \in DOMAIN rs \cup {t} |-> IF x = t THEN rowCount(rs, t) + eventCountM
                                           ELSE rs[x]]

-----------------------------------------------------------------------------
(* Reporter operations *)

\* NewStatsReporter: the keys are created, then the view is registered.
\* r is <<>> for a nil reporter and <<keys>> for a reporter.
newStatsReporter(vs) ==
    LET r == reporterKeys
        reg == viewRegister(vs, eventCountView(r))
    IN IF reg.err # nil THEN [r |-> <<>>, err |-> reg.err, views |-> vs]
       ELSE [r |-> <<r>>, err |-> nil, views |-> reg.views]

NewStatsReporter ==
    /\ nops < MaxOps
    /\ LET res == newStatsReporter(views)
       IN /\ views' = res.views
          /\ hasReporter' = (hasReporter \/ res.err = nil)
          /\ rows' = rows
          /\ calls' = IF res.err = nil THEN <<>> ELSE calls
          /\ newOK' = IF res.err = nil THEN newOK + 1 ELSE newOK
          /\ last' = [op |-> "NewStatsReporter", args |-> nil, err |-> nil,
                      ret |-> res.err, r |-> res.r, ctx |-> <<>>]
    /\ nops' = nops + 1
    /\ UNCHANGED <<recorded, mainVars, ingressVars>>

\* unregister(): the view and its data are dropped.
Unregister ==
    /\ nops < MaxOps
    /\ views' = viewUnregister(views, "event_count")
    /\ rows' = <<>>
    /\ last' = [op |-> "unregister", args |-> nil, err |-> nil, ret |-> nil,
                r |-> <<>>, ctx |-> <<>>]
    /\ nops' = nops + 1
    /\ UNCHANGED <<hasReporter, recorded, calls, newOK, mainVars, ingressVars>>

\* Mutant: the measurement is recorded once per generated context.
reportEventCount_Twice(r, args, err) ==
    LET first == generateTag(r, args, Insert(r.resultKey, Result(err)))
        second == generateTag(r, args, Insert(r.importerResourceGroupTagKey,
                                              importerResourceGroupValue))
    IN IF first.err # nil THEN [ret |-> first.err, ctx |-> <<>>]
       ELSE IF second.err # nil THEN [ret |-> second.err, ctx |-> <<>>]
       ELSE [ret |-> nil, ctx |-> <<first.ctx, second.ctx>>]

\* Mutant: the delivery error passed in is handed back to the caller.
reportEventCount_DeliveryErr(r, args, err) ==
    LET second == generateTag(r, args, Insert(r.importerResourceGroupTagKey,
                                              importerResourceGroupValue))
    IN IF err # nil THEN [ret |-> err, ctx |-> <<>>]
       ELSE IF second.err # nil THEN [ret |-> second.err, ctx |-> <<>>]
       ELSE [ret |-> nil, ctx |-> <<second.ctx>>]

\* ReportEventCount: what it returns and the contexts it hands to
\* metrics.Record (none or one).
reportEventCount(r, args, err) ==
    LET first == generateTag(r, args, Insert(r.resultKey, Result(err)))
    IN IF first.err # nil THEN [ret |-> first.err, ctx |-> <<>>]
       ELSE LET second == generateTag(r, args,
                              Insert(r.importerResourceGroupTagKey,
                                     importerResourceGroupValue))
            IN IF second.err # nil THEN [ret |-> second.err, ctx |-> <<>>]
               ELSE [ret |-> nil, ctx |-> <<second.ctx>>]

RECURSIVE recordAll(_, _, _)
recordAll(vs, rs, ctxs) ==
    IF ctxs = <<>> THEN rs
    ELSE recordAll(vs, metricsRecord(vs, rs, Head(ctxs)), Tail(ctxs))

\* The call log: per (args, err), how many calls were made and how many of
\* them returned nil.
logCall(f, k, ret) ==
    LET old == IF k \in DOMAIN f THEN f[k] ELSE [n |-> 0, nilRet |-> 0]
        new == [n |-> old.n + 1,
                nilRet |-> old.nilRet + (IF ret = nil THEN 1 ELSE 0)]
    IN [x \in DOMAIN f \cup {k} |-> IF x = k THEN new ELSE f[x]]

ReportEventCount(args, err) ==
    /\ nops < MaxOps
    /\ hasReporter
    /\ LET res == reportEventCount(reporterKeys, args, err)
       IN /\ rows' = recordAll(views, rows, res.ctx)
          /\ recorded' = recorded + Len(res.ctx)
          /\ last' = [op |-> "ReportEventCount", args |-> args, err |-> err,
                      ret |-> res.ret, r |-> <<>>, ctx |-> res.ctx]
          /\ calls' = logCall(calls, [args |-> args, err |-> err], res.ret)
    /\ nops' = nops + 1
    /\ UNCHANGED <<views, hasReporter, newOK, mainVars, ingressVars>>

InitReporter ==
    /\ views = <<>>
    /\ rows = <<>>
    /\ hasReporter = FALSE
    /\ recorded = 0
    /\ last = [op |-> "none", args |-> nil, err |-> nil, ret |-> nil,
               r |-> <<>>, ctx |-> <<>>]
    /\ calls = <<>>
    /\ newOK = 0
    /\ nops = 0

NextReporter ==
    \/ NewStatsReporter
    \/ Unregister
    \/ \E args \in ReportArgsSet, err \in Errors : ReportEventCount(args, err)

\* The process of main has not been started.
IdleMain ==
    /\ env = [ApiVersion |-> <<>>, Kind |-> <<>>, Controller |-> <<>>]
    /\ pc = "idle"
    /\ idx = 1
    /\ gvrcs = <<>>
    /\ exit = [code |-> 0, why |-> ""]
    /\ signalled = FALSE
    /\ adaptor = NoAdaptor
    /\ startErr = nil

\* The ingress reporter has not been created.
IdleIngress ==
    /\ ingressViews = <<>>
    /\ latencies = <<>>
    /\ dispatched = <<>>
    /\ iops = 0

Init == InitReporter /\ IdleMain /\ IdleIngress

Next == NextReporter

Spec == Init /\ [][Next]_vars

-----------------------------------------------------------------------------
(* Claims about the apiserver stats reporter, checked under Spec *)

registered == isRegistered(views, "event_count")

\* A ReportEventCount call has just been made.
reported == last.op = "ReportEventCount"

\* A step of the named reporter operation.
stepOf(op) == nops' = nops + 1 /\ last'.op = op

\* Every field of a ReportArgs is a value the tag library accepts.
argsAttach(a) ==
    /\ a.ns # NonASCII
    /\ a.eventSource # NonASCII
    /\ a.eventType # NonASCII
    /\ a.apiServerImporter # NonASCII

\* The five tags of a measurement that do not depend on the delivery error.
argTags(a) ==
    [k \in {LabelNamespaceName, LabelEventSource, LabelEventType,
            LabelImporterName, LabelImporterResourceGroup} |->
        CASE k = LabelNamespaceName -> a.ns
          [] k = LabelEventSource -> a.eventSource
          [] k = LabelEventType -> a.eventType
          [] k = LabelImporterName -> a.apiServerImporter
          [] k = LabelImporterResourceGroup -> importerResourceGroupValue]

sumRows(rs) ==
    LET RECURSIVE sum(_)
        sum(S) == IF S = {} THEN 0
                  ELSE LET t == CHOOSE x \in S : TRUE IN rs[t] + sum(S \ {t})
    IN sum(DOMAIN rs)

\* C1 (as claimed): every measurement ReportEventCount records carries the
\* tags namespace, eventSource, eventType, importerName, resourceGroup and
\* result, with result = "success" when err is nil and "failure" otherwise.
C1_MeasurementCarriesResult ==
    reported =>
        \A i \in 1..Len(last.ctx) :
            /\ DOMAIN last.ctx[i] =
                   {LabelNamespaceName, LabelEventSource, LabelEventType,
                    LabelImporterName, LabelImporterResourceGroup, LabelResult}
            /\ last.ctx[i][LabelResult] =
                   (IF last.err = nil THEN "success" ELSE "failure")

\* C3 (as claimed): a measurement for ReportArgs with empty eventType and
\* eventSource is recorded under metricskey.Any for both tags.
C3_EmptyRecordedAsAny ==
    (reported /\ last.args.eventType = "" /\ last.args.eventSource = "") =>
        /\ last.ret = nil
        /\ \A i \in 1..Len(last.ctx) :
              /\ last.ctx[i][LabelEventType] = metricskeyAny
              /\ last.ctx[i][LabelEventSource] = metricskeyAny

\* The calls since registration were all made with one (args, err) pair.
onlyCalls(k) == registered /\ DOMAIN calls = {k}

\* N calls with one (args, err) pair leave the row of these arguments at N,
\* every other row untouched, and return nil each time.
countsExactly(k) ==
    /\ calls[k].nilRet = calls[k].n
    /\ rowCount(rows, argTags(k.args)) = calls[k].n
    /\ \A t \in DOMAIN rows : t # argTags(k.args) => rows[t] = 0

C7_RegisterOncePerUnregister ==
    /\ [](Cardinality({i \in 1..Len(views) : views[i].Name = "event_count"}) <= 1)
    /\ [][stepOf("NewStatsReporter") =>
            IF registered
            THEN last'.ret # nil /\ last'.r = <<>> /\ views' = views
            ELSE last'.ret = nil /\ last'.r # <<>> /\ registered']_vars

C7_Witness ==
    /\ last.op = "NewStatsReporter"
    /\ last.ret # nil
    /\ newOK >= 2

\* C10: ReportEventCount returns a non-nil error only when a tag cannot be
\* attached, and then records nothing: every counter keeps its value. When
\* the tags attach it records exactly one measurement and returns nil,
\* whatever delivery error was passed in.
C10_ErrorOnlyFromTags ==
    [][stepOf("ReportEventCount") =>
        /\ last'.ret # nil =>
              /\ ~argsAttach(last'.args)
              /\ rows' = rows
              /\ recorded' = recorded
        /\ argsAttach(last'.args) =>
              /\ last'.ret = nil
              /\ recorded' = recorded + 1
              /\ registered => sumRows(rows') = sumRows(rows) + 1]_vars

C10_Witness ==
    /\ reported
    /\ last.ret # nil
    /\ recorded >= 1
    /\ sumRows(rows) >= 1

-----------------------------------------------------------------------------
(* cmd/apiserver_receive_adapter: main *)

\* Longest ApiVersion, Kind and Controller list explored.
MaxLen == 2

\* Most notifications a run of the adaptor accepts.
MaxNotifications == 2

\* Strings that are parsed are sequences of tokens; "/" is the separator.
ApiVersions == { <<"v1">>, <<"apps", "/", "v1">>, <<"a", "/", "b", "/", "c">> }

Kinds == {"Pod", "Widget"}

\* The lists of at least one and at most n entries.
NonEmptySeqs(S, n) == UNION {[1..k -> S] : k \in 1..n}

\* The resource types the cluster serves and a Watch Source can list.
WatchableResources ==
    { [Group |-> <<>>, Version |-> <<"v1">>, Resource |-> "pods"] }

count(str, tok) == Cardinality({j \in 1..Len(str) : str[j] = tok})

index(str, tok) == CHOOSE j \in 1..Len(str) :
                      str[j] = tok /\ \A k \in 1..(j - 1) : str[k] # tok

\* Mutant: every string is taken for a group/version.
ParseGroupVersion_Lenient(gv) ==
    IF count(gv, "/") = 0 THEN [Group |-> <<>>, Version |-> gv, err |-> nil]
    ELSE [Group |-> SubSeq(gv, 1, index(gv, "/") - 1),
          Version |-> SubSeq(gv, index(gv, "/") + 1, Len(gv)), err |-> nil]

\* schema.ParseGroupVersion
ParseGroupVersion(gv) ==
    IF Len(gv) = 0 \/ gv = <<"/">>
    THEN [Group |-> <<>>, Version |-> <<>>, err |-> nil]
    ELSE CASE count(gv, "/") = 0 -> [Group |-> <<>>, Version |-> gv, err |-> nil]
           [] count(gv, "/") = 1 ->
                [Group |-> SubSeq(gv, 1, index(gv, "/") - 1),
                 Version |-> SubSeq(gv, index(gv, "/") + 1, Len(gv)),
                 err |-> nil]
           [] OTHER -> [Group |-> <<>>, Version |-> <<>>,
                        err |-> "unexpected GroupVersion string"]

\* meta.UnsafeGuessKindToResource: the lower-cased plural of the kind, never
\* an error.
UnsafeGuessKindToResource(gvk) ==
    [Group |-> gvk.Group, Version |-> gvk.Version,
     Resource |-> CASE gvk.Kind = "Pod" -> "pods"
                    [] gvk.Kind = "Widget" -> "widgets"]

\* The process ends; nothing runs afterwards.
exitWith(code, why) ==
    /\ pc' = "exited"
    /\ exit' = [code |-> code, why |-> why]

\* panic(...): exit status 2.
panic(why) == exitWith(2, why)

\* logger.Fatalw(...): exit status 1.
Fatalw(why) == exitWith(1, why)

\* The process is started with some environment.
Exec ==
    /\ pc = "idle"
    /\ \E av \in NonEmptySeqs(ApiVersions, MaxLen),
          k \in NonEmptySeqs(Kinds, MaxLen),
          c \in NonEmptySeqs(BOOLEAN, MaxLen) :
          env' = [ApiVersion |-> av, Kind |-> k, Controller |-> c]
    /\ pc' = "configure"
    /\ UNCHANGED <<idx, gvrcs, exit, signalled, adaptor, startErr, reporterVars, ingressVars>>

\* main up to NewStatsReporter: the environment, logging, the metrics
\* exporter and the stats reporter.
Configure(fail) ==
    /\ pc = "configure"
    /\ CASE fail = "envconfig" -> panic("Error processing env var")
         [] fail = "exporter" -> Fatalw("Failed to create the metrics exporter")
         [] fail = "statsreporter" -> Fatalw("Error building statsreporter")
         [] OTHER -> pc' = "signals" /\ exit' = exit
    /\ UNCHANGED <<env, idx, gvrcs, signalled, adaptor, startErr, reporterVars, ingressVars>>

\* stopCh := signals.SetupSignalHandler()
SetupSignalHandler ==
    /\ pc = "signals"
    /\ pc' = "clients"
    /\ UNCHANGED <<env, idx, gvrcs, exit, signalled, adaptor, startErr, reporterVars, ingressVars>>

\* The kubeconfig, the dynamic client, tracing and the cloud events client.
BuildClients(fail) ==
    /\ pc = "clients"
    /\ CASE fail = "kubeconfig" -> Fatalw("Error building kubeconfig")
         [] fail = "dynamic" -> Fatalw("Error building dynamic client")
         [] fail = "cloudevents" -> Fatalw("Error building cloud event client")
         [] OTHER -> pc' = "loop" /\ exit' = exit
    /\ UNCHANGED <<env, idx, gvrcs, signalled, adaptor, startErr, reporterVars, ingressVars>>

\* Mutant: every descriptor takes the Controller flag of the first entry.
loopBody_FirstController(e, i) ==
    IF i > Len(e.Kind) THEN [outcome |-> "panic", why |-> "index out of range"]
    ELSE IF i > Len(e.Controller)
    THEN [outcome |-> "panic", why |-> "index out of range"]
    ELSE LET gv == ParseGroupVersion(e.ApiVersion[i])
         IN IF gv.err # nil
            THEN [outcome |-> "fatal", why |-> "Error parsing APIVersion"]
            ELSE [outcome |-> "append",
                  gvrc |-> [GVR |-> UnsafeGuessKindToResource(
                                        [Kind |-> e.Kind[i], Group |-> gv.Group,
                                         Version |-> gv.Version]),
                            Controller |-> e.Controller[1]]]

\* One iteration of the loop over env.ApiVersion: what it does.
loopBody(e, i) ==
    IF i > Len(e.Kind) THEN [outcome |-> "panic", why |-> "index out of range"]
    ELSE IF i > Len(e.Controller)
    THEN [outcome |-> "panic", why |-> "index out of range"]
    ELSE LET gv == ParseGroupVersion(e.ApiVersion[i])
         IN IF gv.err # nil
            THEN [outcome |-> "fatal", why |-> "Error parsing APIVersion"]
            ELSE [outcome |-> "append",
                  gvrc |-> [GVR |-> UnsafeGuessKindToResource(
                                        [Kind |-> e.Kind[i], Group |-> gv.Group,
                                         Version |-> gv.Version]),
                            Controller |-> e.Controller[i]]]

LoopIteration ==
    /\ pc = "loop"
    /\ idx <= Len(env.ApiVersion)
    /\ LET b == loopBody(env, idx)
       IN CASE b.outcome = "panic" -> panic(b.why) /\ UNCHANGED <<idx, gvrcs>>
            [] b.outcome = "fatal" -> Fatalw(b.why) /\ UNCHANGED <<idx, gvrcs>>
            [] OTHER -> /\ gvrcs' = Append(gvrcs, b.gvrc)
                        /\ idx' = idx + 1
                        /\ UNCHANGED <<pc, exit>>
    /\ UNCHANGED <<env, signalled, adaptor, startErr, reporterVars, ingressVars>>

\* opt := apiserver.Options{...}; a := apiserver.NewAdaptor(...)
NewAdaptor ==
    /\ pc = "loop"
    /\ idx > Len(env.ApiVersion)
    /\ adaptor' = [NoAdaptor EXCEPT !.state = "Idle", !.GVRCs = gvrcs]
    /\ pc' = "start"
    /\ UNCHANGED <<env, idx, gvrcs, exit, signalled, startErr, reporterVars, ingressVars>>

\* Mutant: the channel handed to Start is never closed.
stopCh_NeverClosed == FALSE

\* The channel SetupSignalHandler returned is closed by the first signal.
stopCh == signalled

\* The channel main hands to a.Start.
startStopCh == stopCh

\* a.Start(stopCh) is entered.
Start ==
    /\ pc = "start"
    /\ adaptor' = [adaptor EXCEPT
                     !.state = IF startStopCh THEN "Draining" ELSE "Running"]
    /\ pc' = "started"
    /\ UNCHANGED <<env, idx, gvrcs, exit, signalled, startErr, reporterVars, ingressVars>>

\* Mutant: an error of Start is fatal.
afterStart_Fatal(err) ==
    IF err # nil THEN [code |-> 1, why |-> "start returned an error"]
    ELSE [code |-> 0, why |-> ""]

\* What main does with the error Start returned: it logs a warning, and
\* returns either way.
afterStart(err) ==
    IF err # nil THEN [code |-> 0, why |-> "warn: start returned an error,"]
    ELSE [code |-> 0, why |-> ""]

\* a.Start has returned; main returns and the deferred flush runs.
MainReturn ==
    /\ pc = "returned"
    /\ exitWith(afterStart(startErr).code, afterStart(startErr).why)
    /\ UNCHANGED <<env, idx, gvrcs, signalled, adaptor, startErr, reporterVars, ingressVars>>

\* The first shutdown signal arrives: the stop channel is closed, and a
\* running adaptor begins to drain, cancelling its Watch Sources.
Signal ==
    /\ pc \in {"clients", "loop", "start", "started"}
    /\ ~signalled
    /\ signalled' = TRUE
    /\ adaptor' = IF adaptor.state = "Running" /\ startStopCh'
                  THEN [adaptor EXCEPT !.state = "Draining"]
                  ELSE adaptor
    /\ UNCHANGED <<env, pc, idx, gvrcs, exit, startErr, reporterVars, ingressVars>>

-----------------------------------------------------------------------------
(* The adaptor, as the specification describes it *)

\* A Watch Source hands a notification to the adaptor; its delivery starts.
Accept(src) ==
    /\ pc = "started"
    /\ adaptor.state = "Running"
    /\ adaptor.accepted < MaxNotifications
    /\ adaptor' = [adaptor EXCEPT !.accepted = @ + 1, !.inflight = @ + 1]
    /\ UNCHANGED <<env, pc, idx, gvrcs, exit, signalled, startErr, reporterVars, ingressVars>>

\* A delivery completes and its outcome is reported.
Complete ==
    /\ pc = "started"
    /\ adaptor.inflight > 0
    /\ adaptor' = [adaptor EXCEPT !.inflight = @ - 1]
    /\ UNCHANGED <<env, pc, idx, gvrcs, exit, signalled, startErr, reporterVars, ingressVars>>

\* An unrecoverable fault shuts the adaptor down.
Fault ==
    /\ pc = "started"
    /\ adaptor.state = "Running"
    /\ adaptor' = [adaptor EXCEPT !.state = "Draining", !.fault = TRUE]
    /\ UNCHANGED <<env, pc, idx, gvrcs, exit, signalled, startErr, reporterVars, ingressVars>>

\* The shutdown grace period elapses.
GraceElapse ==
    /\ pc = "started"
    /\ adaptor.state = "Draining"
    /\ ~adaptor.graceElapsed
    /\ adaptor' = [adaptor EXCEPT !.graceElapsed = TRUE]
    /\ UNCHANGED <<env, pc, idx, gvrcs, exit, signalled, startErr, reporterVars, ingressVars>>

\* Start returns once the deliveries in flight are done or the grace period
\* is over, with an error when a fault caused the shutdown.
StartReturn ==
    /\ pc = "started"
    /\ adaptor.state = "Draining"
    /\ adaptor.inflight = 0 \/ adaptor.graceElapsed
    /\ adaptor' = [adaptor EXCEPT !.state = "Stopped"]
    /\ startErr' = IF adaptor.fault THEN "unrecoverable fault" ELSE nil
    /\ pc' = "returned"
    /\ UNCHANGED <<env, idx, gvrcs, exit, signalled, reporterVars, ingressVars>>

ProgramStep ==
    \/ \E fail \in {"none", "envconfig", "exporter", "statsreporter"} :
          Configure(fail)
    \/ SetupSignalHandler
    \/ \E fail \in {"none", "kubeconfig", "dynamic", "cloudevents"} :
          BuildClients(fail)
    \/ LoopIteration
    \/ NewAdaptor
    \/ Start
    \/ MainReturn
    \/ Complete
    \/ GraceElapse
    \/ StartReturn

NextMain ==
    \/ Exec
    \/ ProgramStep
    \/ Signal
    \/ \E src \in 1..Len(adaptor.GVRCs) : Accept(src)
    \/ Fault

SpecMain == Init /\ [][NextMain]_vars

\* The scheduler runs main and the adaptor's goroutines, deliveries finish
\* or time out, and the grace timer fires.
FairSpecMain == SpecMain /\ WF_vars(ProgramStep)

-----------------------------------------------------------------------------
(* Claims about main, checked under SpecMain and FairSpecMain *)

sameLengths ==
    /\ Len(env.ApiVersion) = Len(env.Kind)
    /\ Len(env.Kind) = Len(env.Controller)

adaptorStarted == adaptor.state \in {"Running", "Draining", "Stopped"}

\* C4 (as claimed): when the ApiVersion, Kind and Controller lists do not all
\* have the same length, startup fails before the adaptor is constructed or
\* started.
C4_MismatchIsFatal ==
    (pc # "idle" /\ ~sameLengths) =>
        /\ adaptor.state = "None"
        /\ pc = "exited" => exit.code # 0

\* C5 (as claimed): whenever Start returns a non-nil error the process
\* terminates with a non-zero exit status.
C5_StartErrorExitsNonZero ==
    (pc = "exited" /\ startErr # nil) => exit.code # 0

\* C5 (amended): whenever Start returns a non-nil error, main logs a warning
\* and returns: the process terminates with exit status 0.
C5_StartErrorOnlyWarned ==
    (pc = "exited" /\ startErr # nil) =>
        /\ exit.code = 0
        /\ exit.why = "warn: start returned an error,"

C5_Witness == pc = "exited" /\ startErr # nil /\ adaptor.state = "Stopped"

\* The pair (apiVersion, kind) names a resource type the cluster serves.
resolvable(av, k) ==
    /\ count(av, "/") <= 1
    /\ \E w \in WatchableResources :
          /\ (IF w.Group = <<>> THEN w.Version ELSE w.Group \o <<"/">> \o w.Version) = av
          /\ (k = "Pod" /\ w.Resource = "pods")

apiVersionOf(gvr) ==
    IF gvr.Group = <<>> THEN gvr.Version
    ELSE gvr.Group \o <<"/">> \o gvr.Version

\* The resource name of a kind: its lower-cased plural.
resourceOfKind(k) == IF k = "Pod" THEN "pods" ELSE "widgets"

\* C11: once the adaptor is constructed, the descriptor list it was handed
\* has exactly one entry per configured ApiVersion entry, in the same order;
\* entry i holds the group and version of ApiVersion[i], the resource of
\* Kind[i] and the flag Controller[i], so no entry mixes indices and nothing
\* is added, dropped or reordered. The list is never changed afterwards.
C11_DescriptorsFollowConfig ==
    adaptor.state # "None" =>
        /\ adaptor.GVRCs = gvrcs
        /\ Len(adaptor.GVRCs) = Len(env.ApiVersion)
        /\ \A i \in 1..Len(env.ApiVersion) :
              /\ i <= Len(env.Kind) /\ i <= Len(env.Controller)
              /\ apiVersionOf(adaptor.GVRCs[i].GVR) = env.ApiVersion[i]
              /\ Len(adaptor.GVRCs[i].GVR.Version) = 1
              /\ adaptor.GVRCs[i].GVR.Resource = resourceOfKind(env.Kind[i])
              /\ adaptor.GVRCs[i].Controller = env.Controller[i]

C11_Witness ==
    /\ adaptor.state # "None"
    /\ Len(adaptor.GVRCs) = 2
    /\ env.ApiVersion[1] # env.ApiVersion[2]
    /\ env.Kind[1] # env.Kind[2]
    /\ env.Controller[1] # env.Controller[2]

-----------------------------------------------------------------------------
(* pkg/broker/ingress: the stats reporter of the broker ingress *)

\* Longest run of ingress reporter operations explored.
MaxIngressOps == 4

\* time.Duration counts microseconds here; time.Millisecond is 1000 of them.
Millisecond == 1000

Durations == {1100 * Millisecond, 9100 * Millisecond, 1500}

\* http.StatusAccepted and http.StatusInternalServerError
StatusCodes == {202, 500}

IngressArgsSet ==
    { [ns |-> "testns", broker |-> "testbroker", eventType |-> "testeventtype",
       eventSource |-> "testeventsource"],
      [ns |-> "testns", broker |-> "otherbroker", eventType |-> "testeventtype",
       eventSource |-> "testeventsource"] }

LabelBrokerName == "broker_name"
LabelResponseCode == "response_code"
LabelResponseCodeClass == "response_code_class"

\* The class of a status code: "2xx" for 202.
ResponseCodeClass(code) == ToString(code \div 100) \o "xx"

\* The tags of an ingress measurement.
ingressTags(args, code) ==
    [k \in {LabelNamespaceName, LabelBrokerName, LabelEventType, LabelEventSource,
            LabelResponseCode, LabelResponseCodeClass} |->
        CASE k = LabelNamespaceName -> args.ns
          [] k = LabelBrokerName -> args.broker
          [] k = LabelEventType -> args.eventType
          [] k = LabelEventSource -> args.eventSource
          [] k = LabelResponseCode -> ToString(code)
          [] k = LabelResponseCodeClass -> ResponseCodeClass(code)]

\* Mutant: the duration is recorded as it is, not in milliseconds.
dispatchTimeInMsec_Raw(d) == d

\* The observation recorded for a duration: its milliseconds.
dispatchTimeInMsec(d) == d \div Millisecond

\* The views the ingress reporter registers.
IngressViewNames == <<"event_count", "event_dispatch_latencies">>

\* NewStatsReporter of the ingress: both views are registered, or none when
\* one of the names is taken.
IngressNewStatsReporter ==
    /\ iops < MaxIngressOps
    /\ IF \E i \in 1..Len(IngressViewNames) :
             isRegistered(ingressViews, IngressViewNames[i])
       THEN UNCHANGED <<ingressViews, dispatched>>
       ELSE /\ ingressViews' = [i \in 1..Len(IngressViewNames) |->
                                  [Name |-> IngressViewNames[i]]]
            /\ dispatched' = <<>>
    /\ iops' = iops + 1
    /\ UNCHANGED <<latencies, reporterVars, mainVars>>

\* unregister() of the ingress tests: both views and their data are dropped.
IngressUnregister ==
    /\ iops < MaxIngressOps
    /\ ingressViews' = <<>>
    /\ latencies' = <<>>
    /\ iops' = iops + 1
    /\ UNCHANGED <<dispatched, reporterVars, mainVars>>

seqAt(f, k) == IF k \in DOMAIN f THEN f[k] ELSE <<>>

appendAt(f, k, v) ==
    [x \in DOMAIN f \cup {k} |-> IF x = k THEN Append(seqAt(f, k), v) ELSE f[x]]

\* ReportEventDispatchTime(args, responseCode, d): one observation in the
\* distribution of the measurement's tags.
ReportEventDispatchTime(args, code, d) ==
    /\ iops < MaxIngressOps
    /\ isRegistered(ingressViews, "event_dispatch_latencies")
    /\ latencies' = appendAt(latencies, ingressTags(args, code), dispatchTimeInMsec(d))
    /\ dispatched' = appendAt(dispatched, [args |-> args, code |-> code], d)
    /\ iops' = iops + 1
    /\ UNCHANGED <<ingressViews, reporterVars, mainVars>>

NextIngress ==
    \/ IngressNewStatsReporter
    \/ IngressUnregister
    \/ \E args \in IngressArgsSet, code \in StatusCodes, d \in Durations :
          ReportEventDispatchTime(args, code, d)

SpecIngress == Init /\ [][NextIngress]_vars

\* The tags the ingress test expects for a call.
wantTags(a, code, class) ==
    [k \in {LabelNamespaceName, LabelBrokerName, LabelEventType, LabelEventSource,
            LabelResponseCode, LabelResponseCodeClass} |->
        CASE k = LabelNamespaceName -> a.ns
          [] k = LabelBrokerName -> a.broker
          [] k = LabelEventType -> a.eventType
          [] k = LabelEventSource -> a.eventSource
          [] k = LabelResponseCode -> code
          [] k = LabelResponseCodeClass -> class]

codeText(code) == IF code = 202 THEN <<"202", "2xx">> ELSE <<"500", "5xx">>

====
